---- MODULE Spec2Model ----
(***************************************************************************)
(* Model of src/chatbot.py: the SpeechController (text-to-speech on a      *)
(* background thread), the Streamlit session state around it, and the      *)
(* script's handlers.                                                      *)
(*                                                                         *)
(* One foreground thread (the script run) calls speak() and stop(); each   *)
(* speak() starts one worker thread running run_speech.  Every attribute   *)
(* read and write of the controller is one step, so the steps of stop()    *)
(* and cleanup() on the foreground thread interleave with the worker's.    *)
(* Strings are sequences of one-character strings.                         *)
(***************************************************************************)
EXTENDS Integers, Sequences, FiniteSets, TLC

VARIABLES
    engine,          \* self.engine: None or the engine object (named by its session)
    speech_thread,   \* self.speech_thread: None or the latest worker thread
    is_speaking,     \* self.is_speaking
    wpc,             \* position of each worker thread in run_speech
    text,            \* the text captured by the latest run_speech closure
    acquired,        \* per session: pyttsx3.init() returned an engine
    stops,           \* per engine: number of engine.stop() calls received
    queued,          \* per engine: an utterance is queued and not yet spoken
    spoken,          \* per engine: the utterance ran to its natural end
    failed,          \* per session: a synthesis call raised inside the try block
    reported,        \* per session: st.error(...) was shown by the except clause
    wraised,         \* per session: the worker died of an exception leaving run_speech
    fpc,             \* position of the foreground thread
    fop,             \* the handler the foreground thread is running
    farg,            \* the text argument of the speak() call in progress
    joined,          \* the latest speak() found the previous worker alive and joined it
    fraised,         \* the foreground thread's last call ended in an exception
    fret,            \* the step just taken was a normal return of stop()
    stopAt,          \* where the latest worker was when stop() was last called on it
    afterReset,      \* reset_app ran on a Speaking controller, no speak() since
    resetAt,         \* where the latest worker was when reset_app last ran, no speak() since
    current_mode,    \* st.session_state.current_mode
    chat_response,   \* st.session_state.chat_response
    user_input,      \* st.session_state.user_input
    ss_is_speaking,  \* st.session_state.is_speaking
    input_text_key,  \* st.session_state.input_text_key
    response,        \* the outcome of model.generate_content(...) in get_chatbot_response
    status,          \* the message in get_voice_input's status placeholder on the page
    lastVoice        \* how get_voice_input ended in the latest script run ("none": not called)

ctl  == <<engine, speech_thread, is_speaking>>
wk   == <<wpc, text>>
eng  == <<acquired, stops, queued, spoken>>
out  == <<failed, reported, wraised>>
fg   == <<fpc, fop, farg, fraised, joined>>
hist == <<stopAt, afterReset, resetAt>>
app  == <<current_mode, chat_response, user_input, ss_is_speaking, input_text_key>>
io   == <<response, status, lastVoice>>
vars == <<ctl, wk, eng, out, fg, fret, hist, app, io>>

\* ------------------------------------------------------------------ bounds
MaxSessions == 2      \* speak() calls explored
MaxKey == 2           \* cap on input_text_key
MaxLen == 5           \* longest reply or error message of the language model explored

None == 0             \* Python's None for engine and speech_thread
Sessions == 1..MaxSessions

\* The strings handed to speak() by a direct caller.
Texts == { <<>>, <<" ">>, <<"h", "i">> }

\* ------------------------------------------------------------------ strings
Whitespace == {" ", "\n", "\t"}

RECURSIVE LStrip(_)
LStrip(s) == IF s # <<>> /\ Head(s) \in Whitespace THEN LStrip(Tail(s)) ELSE s

RECURSIVE RStrip(_)
RStrip(s) ==
    IF s # <<>> /\ s[Len(s)] \in Whitespace THEN RStrip(SubSeq(s, 1, Len(s) - 1)) ELSE s

\* str.strip()
Strip(s) == RStrip(LStrip(s))

\* str.replace(pat, ""): drop the occurrences of pat, scanning left to right.
RECURSIVE Remove(_, _)
Remove(s, pat) ==
    IF Len(s) < Len(pat) THEN s
    ELSE IF SubSeq(s, 1, Len(pat)) = pat
         THEN Remove(SubSeq(s, Len(pat) + 1, Len(s)), pat)
         ELSE <<Head(s)>> \o Remove(Tail(s), pat)

\* ------------------------------------------------------------------ initial state
CtlInit ==
    /\ engine = None
    /\ speech_thread = None
    /\ is_speaking = FALSE

\* No reply yet.
NoResponse == [ok |-> TRUE, text |-> <<>>]

\* The state after construction, but for the language model's outcome.
Start ==
    /\ CtlInit
    /\ wpc = [w \in Sessions |-> "new"]
    /\ text = <<>>
    /\ acquired = [w \in Sessions |-> FALSE]
    /\ stops = [w \in Sessions |-> 0]
    /\ queued = [w \in Sessions |-> FALSE]
    /\ spoken = [w \in Sessions |-> FALSE]
    /\ failed = [w \in Sessions |-> FALSE]
    /\ reported = [w \in Sessions |-> FALSE]
    /\ wraised = [w \in Sessions |-> FALSE]
    /\ fpc = "idle"
    /\ fop = "none"
    /\ farg = <<>>
    /\ joined = FALSE
    /\ fraised = FALSE
    /\ fret = FALSE
    /\ stopAt = "none"
    /\ afterReset = FALSE
    /\ resetAt = "none"
    /\ current_mode = "None"
    /\ chat_response = <<>>
    /\ user_input = <<>>
    /\ ss_is_speaking = FALSE
    /\ input_text_key = 0
    /\ status = "none"
    /\ lastVoice = "none"

Init ==
    /\ Start
    /\ response = NoResponse

\* ------------------------------------------------------------------ the foreground thread
\* A call on the foreground thread returns (ok) or ends in an exception (~ok).
\* The Speak and Stop buttons assign st.session_state.is_speaking after the call.
Return(ok) ==
    /\ fpc' = "idle"
    /\ fop' = "none"
    /\ farg' = <<>>
    /\ fraised' = ~ok
    /\ UNCHANGED joined
    /\ ss_is_speaking' = IF ok /\ fop = "speakbtn" THEN TRUE
                         ELSE IF ok /\ fop = "stopbtn" THEN FALSE
                         ELSE ss_is_speaking
    /\ UNCHANGED <<current_mode, chat_response, user_input, input_text_key, io>>

\* engine.stop() of pyttsx3: ends the current utterance and empties the queue.
EngineStop(e) ==
    /\ stops' = [stops EXCEPT ![e] = @ + 1]
    /\ queued' = [queued EXCEPT ![e] = FALSE]

\* (mutant) speak() that does not wait for the previous worker.
JoinSkipped == TRUE

\* speak(): "if self.speech_thread and self.speech_thread.is_alive(): join()" is passed
JoinDone == IF speech_thread = None THEN TRUE ELSE wpc[speech_thread] = "done"

\* A handler calls controller.speak(t): the alive test of the previous worker.
CallSpeak(op, t) ==
    /\ speech_thread < MaxSessions
    /\ fpc' = "join"
    /\ fop' = op
    /\ farg' = t
    /\ joined' = ~JoinDone
    /\ fraised' = FALSE
    /\ fret' = FALSE
    /\ afterReset' = FALSE
    /\ resetAt' = "none"
    /\ UNCHANGED <<ctl, wk, eng, out, stopAt>>

\* speak(text) is entered by a direct caller.
speak_call(t) ==
    /\ fpc = "idle"
    /\ CallSpeak("speak", t)
    /\ UNCHANGED <<app, io>>

\* The records of a finished worker and its dropped engine: once speech_thread is
\* rebound nothing refers to them any more.
Forget(f, blank) ==
    [v \in Sessions |->
        IF wpc[v] = "done" /\ engine # v /\ (acquired[v] => stops[v] > 0)
        THEN blank ELSE f[v]]

\* speak(): the join is over; the new thread is created and started, speak() returns.
speak_start ==
    /\ fpc = "join"
    /\ JoinDone
    /\ speech_thread' = speech_thread + 1
    /\ wpc' = [wpc EXCEPT ![speech_thread + 1] = "flag"]
    /\ text' = farg
    /\ acquired' = Forget(acquired, FALSE)
    /\ stops' = Forget(stops, 0)
    /\ queued' = Forget(queued, FALSE)
    /\ spoken' = Forget(spoken, FALSE)
    /\ failed' = Forget(failed, FALSE)
    /\ reported' = Forget(reported, FALSE)
    /\ wraised' = Forget(wraised, FALSE)
    /\ stopAt' = "none"
    /\ fret' = FALSE
    /\ Return(TRUE)
    /\ UNCHANGED <<engine, is_speaking, afterReset, resetAt>>

\* (mutant) stop() that runs cleanup() whatever the flag says.
StopGuardAlways == TRUE

\* stop(): "if self.is_speaking:"
StopGuard == is_speaking

\* A handler calls controller.stop(): the test of is_speaking.  With the flag false
\* stop() returns at once; otherwise cleanup() is entered.
CallStop(op) ==
    /\ IF StopGuard
       THEN /\ fpc' = "cl_check"
            /\ fop' = op
            /\ fret' = FALSE
       ELSE /\ fpc' = "idle"
            /\ fop' = "none"
            /\ fret' = TRUE
    /\ fraised' = FALSE
    /\ stopAt' = IF speech_thread # None
                 THEN (IF wpc[speech_thread] # "done" THEN wpc[speech_thread] ELSE stopAt)
                 ELSE stopAt
    /\ UNCHANGED <<ctl, wk, eng, out, farg, joined>>

\* stop() is called by a direct caller.
stop_call ==
    /\ fpc = "idle"
    /\ CallStop("stop")
    /\ UNCHANGED <<afterReset, resetAt, app, io>>

\* cleanup() on the foreground thread: "if self.engine:"
stop_cleanup_check ==
    /\ fpc = "cl_check"
    /\ fpc' = IF engine # None THEN "cl_stop" ELSE "clear"
    /\ fret' = FALSE
    /\ UNCHANGED <<ctl, wk, eng, out, fop, farg, fraised, joined, hist, app, io>>

\* cleanup() on the foreground thread: "self.engine.stop()" reads self.engine again;
\* on None the attribute lookup raises AttributeError, which leaves stop().
stop_cleanup_stop ==
    /\ fpc = "cl_stop"
    /\ fret' = FALSE
    /\ IF engine = None
       THEN /\ Return(FALSE)
            /\ UNCHANGED eng
       ELSE /\ EngineStop(engine)
            /\ fpc' = "cl_drop"
            /\ UNCHANGED <<acquired, spoken, fop, farg, fraised, joined, app, io>>
    /\ UNCHANGED <<ctl, wk, out, hist>>

\* cleanup() on the foreground thread: "self.engine = None"
stop_cleanup_drop ==
    /\ fpc = "cl_drop"
    /\ engine' = None
    /\ fpc' = "clear"
    /\ fret' = FALSE
    /\ UNCHANGED <<speech_thread, is_speaking, wk, eng, out, fop, farg, fraised, joined, hist, app, io>>

\* stop(): "self.is_speaking = False", and stop() returns.
stop_clear ==
    /\ fpc = "clear"
    /\ is_speaking' = FALSE
    /\ Return(TRUE)
    /\ fret' = TRUE
    /\ UNCHANGED <<engine, speech_thread, wk, eng, out, hist>>

\* ------------------------------------------------------------------ the worker thread
\* A step of worker w that moves it to position p and touches nothing else.
Goto(w, p) == wpc' = [wpc EXCEPT ![w] = p]

\* A synthesis call raised inside the try block: control goes to the except clause.
Raise(w) ==
    /\ Goto(w, "except")
    /\ failed' = [failed EXCEPT ![w] = TRUE]

WorkerFrame == /\ fret' = FALSE
               /\ UNCHANGED <<speech_thread, text, fg, hist, app, io>>

\* "self.is_speaking = True"
run_set_flag(w) ==
    /\ wpc[w] = "flag"
    /\ is_speaking' = TRUE
    /\ Goto(w, "init")
    /\ WorkerFrame
    /\ UNCHANGED <<engine, eng, out>>

\* "self.engine = pyttsx3.init()": a new engine, or the driver raises.
run_init(w) ==
    /\ wpc[w] = "init"
    /\ \/ /\ engine' = w
          /\ acquired' = [acquired EXCEPT ![w] = TRUE]
          /\ Goto(w, "setprop")
          /\ UNCHANGED out
       \/ /\ Raise(w)
          /\ UNCHANGED <<engine, acquired, reported, wraised>>
    /\ WorkerFrame
    /\ UNCHANGED <<is_speaking, stops, queued, spoken>>

\* "self.engine.setProperty('rate', 150)": AttributeError when self.engine is None.
run_setProperty(w) ==
    /\ wpc[w] = "setprop"
    /\ \/ /\ engine # None
          /\ Goto(w, "say")
          /\ UNCHANGED out
       \/ /\ Raise(w)
          /\ UNCHANGED <<reported, wraised>>
    /\ WorkerFrame
    /\ UNCHANGED <<engine, is_speaking, eng>>

\* "self.engine.say(text)": the utterance is queued on the engine.
run_say(w) ==
    /\ wpc[w] = "say"
    /\ \/ /\ engine # None
          /\ queued' = [queued EXCEPT ![engine] = TRUE]
          /\ Goto(w, "run")
          /\ UNCHANGED out
       \/ /\ Raise(w)
          /\ UNCHANGED <<queued, reported, wraised>>
    /\ WorkerFrame
    /\ UNCHANGED <<engine, is_speaking, acquired, stops, spoken>>

\* "self.engine.runAndWait()" is entered: the worker now blocks inside the engine.
run_runAndWait(w) ==
    /\ wpc[w] = "run"
    /\ \/ /\ engine # None
          /\ Goto(w, "running")
          /\ UNCHANGED out
       \/ /\ Raise(w)
          /\ UNCHANGED <<reported, wraised>>
    /\ WorkerFrame
    /\ UNCHANGED <<engine, is_speaking, eng>>

\* runAndWait() returns: the queue is empty, because the utterance was spoken to its
\* end or because engine.stop() emptied it; or the engine raises.
run_runAndWait_end(w) ==
    /\ wpc[w] = "running"
    /\ \/ /\ spoken' = [spoken EXCEPT ![w] = queued[w]]
          /\ queued' = [queued EXCEPT ![w] = FALSE]
          /\ Goto(w, "cl_check")
          /\ UNCHANGED out
       \/ /\ Raise(w)
          /\ UNCHANGED <<queued, spoken, reported, wraised>>
    /\ WorkerFrame
    /\ UNCHANGED <<engine, is_speaking, acquired, stops>>

\* (mutant) an except clause that swallows the error.
ExceptSilent(w) == UNCHANGED reported

\* "except Exception as e: st.error(...)": the error is shown.
ExceptReport(w) == reported' = [reported EXCEPT ![w] = TRUE]

\* The except clause, then the finally block.
run_except(w) ==
    /\ wpc[w] = "except"
    /\ ExceptReport(w)
    /\ Goto(w, "cl_check")
    /\ WorkerFrame
    /\ UNCHANGED <<engine, is_speaking, eng, failed, wraised>>

\* finally: cleanup() on the worker: "if self.engine:"
run_cleanup_check(w) ==
    /\ wpc[w] = "cl_check"
    /\ Goto(w, IF engine # None THEN "cl_stop" ELSE "clear")
    /\ WorkerFrame
    /\ UNCHANGED <<engine, is_speaking, eng, out>>

\* finally: cleanup() on the worker: "self.engine.stop()"; on None the AttributeError
\* leaves the finally block and run_speech, and the thread dies.
run_cleanup_stop(w) ==
    /\ wpc[w] = "cl_stop"
    /\ IF engine = None
       THEN /\ Goto(w, "done")
            /\ wraised' = [wraised EXCEPT ![w] = TRUE]
            /\ UNCHANGED <<eng, failed, reported>>
       ELSE /\ EngineStop(engine)
            /\ Goto(w, "cl_drop")
            /\ UNCHANGED <<acquired, spoken, out>>
    /\ WorkerFrame
    /\ UNCHANGED <<engine, is_speaking>>

\* (mutant) cleanup() that stops the engine and keeps the handle.
run_cleanup_keep(w) ==
    /\ wpc[w] = "cl_drop"
    /\ Goto(w, "clear")
    /\ WorkerFrame
    /\ UNCHANGED <<engine, is_speaking, eng, out>>

\* finally: cleanup() on the worker: "self.engine = None"
run_cleanup_drop(w) ==
    /\ wpc[w] = "cl_drop"
    /\ engine' = None
    /\ Goto(w, "clear")
    /\ WorkerFrame
    /\ UNCHANGED <<is_speaking, eng, out>>

\* (mutant) a finally block that leaves is_speaking set.
run_keep_flag(w) ==
    /\ wpc[w] = "clear"
    /\ Goto(w, "done")
    /\ WorkerFrame
    /\ UNCHANGED <<engine, is_speaking, eng, out>>

\* finally: "self.is_speaking = False"; run_speech returns and the thread ends.
run_clear_flag(w) ==
    /\ wpc[w] = "clear"
    /\ is_speaking' = FALSE
    /\ Goto(w, "done")
    /\ WorkerFrame
    /\ UNCHANGED <<engine, eng, out>>

run_speech(w) ==
    \/ run_set_flag(w)
    \/ run_init(w)
    \/ run_setProperty(w)
    \/ run_say(w)
    \/ run_runAndWait(w)
    \/ run_runAndWait_end(w)
    \/ run_except(w)
    \/ run_cleanup_check(w)
    \/ run_cleanup_stop(w)
    \/ run_cleanup_drop(w)
    \/ run_clear_flag(w)

\* The steps of stop() and cleanup() on the foreground thread.
stop ==
    \/ stop_cleanup_check
    \/ stop_cleanup_stop
    \/ stop_cleanup_drop
    \/ stop_clear

Worker == \E w \in Sessions : run_speech(w)

\* ------------------------------------------------------------------ specifications
\* The controller under a direct caller on one foreground thread.
Next ==
    \/ \E t \in Texts : speak_call(t)
    \/ speak_start
    \/ stop_call
    \/ stop
    \/ Worker

Spec == Init /\ [][Next]_vars

\* Threads that can run do run: the worker threads are scheduled, and a call in
\* progress on the foreground thread goes on.  When the user acts is left open.
Fairness ==
    /\ \A w \in Sessions : WF_vars(run_speech(w))
    /\ WF_vars(stop)
    /\ WF_vars(speak_start)

LiveSpec == Spec /\ Fairness

\* ------------------------------------------------------------------ the script's handlers
\* What the user types or says, what the model replies, what its client raises.
Inputs == { <<"h", "i">> }
Replies == { <<"o", "k">>, <<"-", " ", "a", " ">> }
Errors == { <<"x">> }
Bullet == <<"*">>                \* stands for the bullet glyph U+2022
Dash == <<"-", " ">>
ErrorPrefix == <<"E", "r", "r", "o", "r", ":", " ">>

\* get_chatbot_response: the reply with bullets and "- " removed and stripped, or
\* "Error: " and the exception's message.
get_chatbot_response(backend) ==
    IF backend.ok
    THEN Strip(Remove(Remove(backend.text, Bullet), Dash))
    ELSE ErrorPrefix \o backend.text

Backend == [ok : {TRUE}, text : Replies] \cup [ok : {FALSE}, text : Errors]

\* The session is Speaking: its worker holds the engine inside the try block and
\* isSpeaking() is true.
Speaking ==
    /\ speech_thread # None
    /\ is_speaking
    /\ engine = speech_thread
    /\ wpc[speech_thread] \in {"setprop", "say", "run", "running"}

\* A script run that does not call get_voice_input: the page is drawn without the
\* status placeholder.
NoCapture ==
    /\ status' = "none"
    /\ lastVoice' = "none"

\* reset_app(): the session state is cleared, then the controller is stopped.
reset_app ==
    /\ input_text_key < MaxKey
    /\ NoCapture
    /\ UNCHANGED response
    /\ resetAt' = IF speech_thread # None
                  THEN (IF wpc[speech_thread] # "done" THEN wpc[speech_thread] ELSE "none")
                  ELSE "none"
    /\ chat_response' = <<>>
    /\ user_input' = <<>>
    /\ ss_is_speaking' = FALSE
    /\ input_text_key' = input_text_key + 1
    /\ afterReset' = Speaking
    /\ CallStop("reset")

\* The radio's mode differs from current_mode (on the first run it is "Text").
ModeChange(mode) ==
    /\ fpc = "idle"
    /\ mode # current_mode
    /\ current_mode = "None" => mode = "Text"
    /\ current_mode' = mode
    /\ reset_app

\* The "Reset All" button.
ResetAll ==
    /\ fpc = "idle"
    /\ current_mode # "None"
    /\ reset_app
    /\ UNCHANGED current_mode

\* The text form's "Send" button.
TextSubmit(inp, backend) ==
    /\ fpc = "idle"
    /\ current_mode = "Text"
    /\ fret' = FALSE
    /\ IF inp # <<>>
       THEN /\ user_input' = inp
            /\ response' = backend
            /\ chat_response' = get_chatbot_response(backend)
       ELSE UNCHANGED <<user_input, chat_response, response>>
    /\ fraised' = FALSE
    /\ NoCapture
    /\ UNCHANGED <<ctl, wk, eng, out, fpc, fop, farg, joined, hist,
                   current_mode, ss_is_speaking, input_text_key>>

\* The text form's "Clear input" button.
TextClear ==
    /\ fpc = "idle"
    /\ current_mode = "Text"
    /\ input_text_key < MaxKey
    /\ input_text_key' = input_text_key + 1
    /\ fret' = FALSE
    /\ fraised' = FALSE
    /\ NoCapture
    /\ UNCHANGED response
    /\ UNCHANGED <<ctl, wk, eng, out, fpc, fop, farg, joined, hist,
                   current_mode, chat_response, user_input, ss_is_speaking>>

\* get_voice_input(): how a capture ends.  "nomic": sr.Microphone() cannot be opened;
\* the "with" statement stands before the try block, so the exception leaves the
\* function.  The others: the text is recognized, or WaitTimeoutError,
\* UnknownValueError or another exception is caught inside the try block.
VoiceOutcomes == {"ok", "timeout", "unknown", "error", "nomic"}
VoiceRaises(outcome) == outcome = "nomic"

\* get_voice_input(): the value returned (None is the empty string here: the caller
\* tests "if user_input:").
get_voice_input(outcome, heard) == IF outcome = "ok" THEN heard ELSE <<>>

\* get_voice_input(): what the status placeholder shows when the function is left.
StatusOf(outcome) ==
    CASE outcome = "timeout" -> "No speech detected"
      [] outcome = "unknown" -> "Could not understand audio"
      [] outcome = "error" -> "Error"
      [] OTHER -> "none"

\* The "Start Recording" button.
VoiceRecord(outcome, heard, backend) ==
    /\ fpc = "idle"
    /\ current_mode = "Voice"
    /\ fret' = FALSE
    /\ lastVoice' = outcome
    /\ status' = StatusOf(outcome)
    /\ fraised' = VoiceRaises(outcome)
    /\ IF ~VoiceRaises(outcome) /\ get_voice_input(outcome, heard) # <<>>
       THEN /\ user_input' = get_voice_input(outcome, heard)
            /\ response' = backend
            /\ chat_response' = get_chatbot_response(backend)
       ELSE UNCHANGED <<user_input, chat_response, response>>
    /\ UNCHANGED <<ctl, wk, eng, out, fpc, fop, farg, joined, hist,
                   current_mode, ss_is_speaking, input_text_key>>

\* The "Speak Response" button: speak(chat_response), then is_speaking = True.
SpeakBtn ==
    /\ fpc = "idle"
    /\ current_mode # "None"
    /\ chat_response # <<>>
    /\ CallSpeak("speakbtn", chat_response)
    /\ NoCapture
    /\ UNCHANGED <<app, response>>

\* The "Stop Speaking" button: stop(), then is_speaking = False.
StopBtn ==
    /\ fpc = "idle"
    /\ current_mode # "None"
    /\ chat_response # <<>>
    /\ ss_is_speaking
    /\ CallStop("stopbtn")
    /\ ss_is_speaking' = (StopGuard /\ ss_is_speaking)
    /\ NoCapture
    /\ UNCHANGED <<afterReset, resetAt, current_mode, chat_response, user_input,
                   input_text_key, response>>

\* The script's runs on the foreground thread, with the worker threads.
AppNext ==
    \/ \E mode \in {"Text", "Voice"} : ModeChange(mode)
    \/ ResetAll
    \/ \E inp \in Inputs \cup {<<>>}, backend \in Backend : TextSubmit(inp, backend)
    \/ TextClear
    \/ \E o \in VoiceOutcomes, heard \in Inputs \cup {<<>>}, backend \in Backend :
          VoiceRecord(o, heard, backend)
    \/ SpeakBtn
    \/ StopBtn
    \/ speak_start
    \/ stop
    \/ Worker

AppSpec == Init /\ [][AppNext]_vars

\* get_chatbot_response alone: the language model's outcome is any reply text or any
\* error message over ReplyChars, and the first query of a session is sent.
ReplyChars == {"*", "-", " ", "a"}
Strings(n) == UNION {[1..k -> ReplyChars] : k \in 0..n}
FmtBackend == [ok : BOOLEAN, text : Strings(MaxLen)]

FmtInit ==
    /\ Start
    /\ response \in FmtBackend

FmtNext ==
    \/ ModeChange("Text")
    \/ \E inp \in Inputs : TextSubmit(inp, response)

FmtSpec == FmtInit /\ [][FmtNext]_vars

\* ------------------------------------------------------------------ properties
Started(w) == wpc[w] # "new"
Latest(w) == w = speech_thread
StopPcs == {"cl_check", "cl_stop", "cl_drop", "clear"}

\* Session w holds an engine: it acquired one that no engine.stop() has released yet
\* or that self.engine still refers to.
Holds(w) == acquired[w] /\ (stops[w] = 0 \/ engine = w)

\* C1: at most one session holds an engine; a worker begins only when every earlier
\* worker has terminated and holds no engine, so sessions start in issue order.
C1_Serialized ==
    /\ Cardinality({w \in Sessions : Holds(w)}) <= 1
    /\ \A w \in Sessions : wpc[w] = "done" => ~Holds(w)
    /\ \A w \in Sessions : Started(w) =>
          \A v \in 1..(w - 1) : wpc[v] = "done" /\ ~Holds(v)

\* C1 witness: the second speak() found the first worker alive and joined it, and the
\* second worker now holds the engine inside runAndWait().
C1_Witness ==
    /\ speech_thread = 2
    /\ joined
    /\ wpc[1] = "done"
    /\ wpc[2] = "running"
    /\ Holds(2)

\* C2: a stop() called after speak() returned, before the worker has set the flag or
\* created the engine, keeps the utterance from running to its natural end and
\* leaves isSpeaking false and the engine released.
C2_StopInterrupts ==
    \A w \in Sessions :
        (Latest(w) /\ stopAt \in {"flag", "init"} /\ wpc[w] = "done" /\ fpc = "idle")
            => (~spoken[w] /\ ~is_speaking /\ engine = None)

\* C3: an acquired engine receives engine.stop() exactly once: never twice, and not
\* zero times once its worker has ended.
C3_ReleasedOnce ==
    \A w \in Sessions :
        /\ stops[w] <= 1
        /\ (wpc[w] = "done" /\ acquired[w]) => stops[w] = 1

\* C4: stop() never raises, that is, cleanup() on the foreground thread never calls
\* stop() on a handle that is already None.
C4_StopNeverRaises == ~fraised

C6_ResetClearsPlayback == (afterReset /\ fpc = "idle") => ~is_speaking

\* C7: a synthesis call that raises is caught and reported by the except clause, the
\* finally block runs, and once the worker has ended (and no stop() is in progress)
\* the engine handle is None, an acquired engine was stopped and is_speaking is false.
C7_FailureContained ==
    \A w \in Sessions : failed[w] =>
        /\ wpc[w] \in {"except", "cl_check", "cl_stop", "cl_drop", "clear", "done"}
        /\ wpc[w] = "except" \/ reported[w]
        /\ (wpc[w] = "done" /\ Latest(w) /\ fpc \notin StopPcs) =>
              (engine = None /\ ~is_speaking /\ ~Holds(w))

\* C7 witness: runAndWait() (or say, setProperty) raised on an acquired engine and the
\* session has ended, reported and released.
C7_Witness ==
    \E w \in Sessions :
        /\ failed[w] /\ acquired[w] /\ reported[w]
        /\ wpc[w] = "done" /\ fpc = "idle"
        /\ engine = None /\ ~is_speaking /\ stopAt = "none"

\* C8: with no stop() called on the session, the worker of a speak() on an idle
\* controller sets is_speaking, later ends with is_speaking false, and no exception
\* leaves run_speech.
C8_SpeakLifecycle ==
    \A w \in Sessions :
        /\ [](((wpc[w] = "flag" /\ ~is_speaking /\ stopAt = "none")
                => <>((is_speaking /\ wpc[w] = "init") \/ stopAt # "none")))
        /\ [](((wpc[w] = "init" /\ is_speaking /\ stopAt = "none")
                => <>((~is_speaking /\ wpc[w] = "done") \/ stopAt # "none")))
        /\ []((Latest(w) /\ wraised[w]) => stopAt # "none")

\* C8 witness: a session no stop() was called on has spoken its text and ended.
C8_Witness ==
    \E w \in Sessions :
        /\ Latest(w) /\ wpc[w] = "done" /\ stopAt = "none"
        /\ spoken[w] /\ ~failed[w] /\ ~is_speaking

\* C9: speak(text) with empty or whitespace-only text starts no worker thread.
IsBlank(t) == Strip(t) = <<>>
C9_BlankSpeakNoOp == speech_thread # None => ~IsBlank(text)

\* C10: every started worker ends; while it is the latest one the controller comes
\* back to idle (worker ended, engine None and released, is_speaking false); and the
\* join of a later speak() ends.
C10_NoOrphan ==
    /\ \A w \in Sessions :
          (Latest(w) /\ Started(w)) ~>
              (wpc[w] = "done" /\ engine = None /\ ~Holds(w) /\ ~is_speaking)
    /\ (fpc = "join") ~> (fpc = "idle")

\* C10 witness: a worker that stop() interrupted inside runAndWait() has ended, and a
\* later speak() that joined it has returned.
C10_Witness ==
    /\ speech_thread = 2
    /\ joined
    /\ fpc = "idle"
    /\ wpc[1] = "done"
    /\ wpc[2] = "done"
    /\ stopAt = "running"
    /\ ~is_speaking

\* C11: only the worker thread of the session in flight operates on the engine handle;
\* the foreground thread never calls stop() on the engine nor drops the reference
\* (at "cl_drop" it has just called self.engine.stop() inside stop()'s cleanup()).
C11_WorkerOwnsEngine == fpc # "cl_drop"

\* C16: at most one worker thread is alive.
Alive(w) == wpc[w] \notin {"new", "done"}
C16_OneWorker == Cardinality({w \in Sessions : Alive(w)}) <= 1

\* C16 witness: the second speak() found the first worker alive, joined it, and has
\* just started the second worker.
C16_Witness ==
    /\ speech_thread = 2
    /\ joined
    /\ fpc = "idle"
    /\ ~Alive(1)
    /\ wpc[2] = "flag"

\* C17: whenever self.engine is not None, is_speaking is true.
C17_EngineImpliesSpeaking == engine # None => is_speaking

\* C18: a step of a worker's finally block (cleanup(), is_speaking = False) is a step
\* of the latest worker; it stops no engine but that worker's own and changes
\* self.engine only when it refers to that worker's engine.  So the finally block of
\* an earlier worker never acts on a newer session.
InFinally(w) == run_cleanup_check(w) \/ run_cleanup_stop(w) \/ run_cleanup_drop(w) \/ run_clear_flag(w)
C18_NoLateCleanup ==
    [][\A w \in Sessions : InFinally(w) =>
          /\ Latest(w)
          /\ \A e \in Sessions \ {w} : stops'[e] = stops[e]
          /\ engine' # engine => engine = w]_vars

\* C18 witness: stop() was called on the first session inside runAndWait(), then
\* speak(b) was called and waits in join() while the first worker, still alive, is in
\* its finally block about to clear is_speaking.
C18_Witness ==
    /\ speech_thread = 1
    /\ fpc = "join"
    /\ joined
    /\ farg = <<"h", "i">>
    /\ stopAt = "running"
    /\ wpc[1] = "clear"

\* The "Stop Speaking" button is rendered: "if st.session_state.chat_response:" and
\* "if st.session_state.is_speaking:".
StopOffered == chat_response # <<>> /\ ss_is_speaking

\* C13: between handlers the "Stop Speaking" button follows the controller: it is
\* offered while a session nothing has stopped is Speaking, and not offered once the
\* latest worker has ended (completed, failed or stopped).
C13_StopFollowsController ==
    (fpc = "idle" /\ speech_thread # None) =>
        /\ (Speaking /\ stopAt = "none") => StopOffered
        /\ wpc[speech_thread] = "done" => ~StopOffered

\* C12: the string returned by get_chatbot_response, for any reply text and any
\* error, holds no bullet glyph and does not begin with "- ".
HasBullet(s) == \E i \in 1..Len(s) : SubSeq(s, i, i) = Bullet
StartsWith(s, pre) == Len(s) >= Len(pre) /\ SubSeq(s, 1, Len(pre)) = pre
C12_Formatted == ~HasBullet(chat_response) /\ ~StartsWith(chat_response, Dash)

\* C14: a capture that fails (no speech, unintelligible audio, device or other error,
\* a microphone that cannot be opened) shows a status message and raises nothing; a
\* script run whose capture returned no text leaves user_input and chat_response as
\* they were; and a language-model error is stored as "Error: " and its message.
VoiceFailures == VoiceOutcomes \ {"ok"}
C14_NoFatalFailure ==
    /\ [](lastVoice \in VoiceFailures => (status # "none" /\ ~fraised))
    /\ [][lastVoice' \in VoiceFailures => UNCHANGED <<user_input, chat_response, response>>]_vars
    /\ [](~response.ok => (chat_response = <<>> \/ chat_response = ErrorPrefix \o response.text))

\* C15: a mode switch or "Reset All" empties user_input and chat_response, clears the
\* session's is_speaking, adds one to input_text_key and calls stop(); and a playback
\* that was under way (its worker started, before it created the engine) does not
\* run to its natural end.
ResetStep == ResetAll \/ \E mode \in {"Text", "Voice"} : ModeChange(mode)
C15_ResetClears ==
    /\ [][ResetStep =>
            /\ user_input' = <<>> /\ chat_response' = <<>> /\ ~ss_is_speaking'
            /\ input_text_key' = input_text_key + 1
            /\ fpc' = "cl_check" \/ fret']_vars
    /\ [](fop = "reset" => (user_input = <<>> /\ chat_response = <<>> /\ ~ss_is_speaking))
    /\ [](\A w \in Sessions :
            (Latest(w) /\ resetAt \in {"flag", "init"} /\ wpc[w] = "done" /\ fpc = "idle")
                => ~spoken[w])

====
